---- MODULE Spec2Model ----
(***************************************************************************)
(* A model of the intraday trading engine of vnarwal17/zerodha:           *)
(* ImprovedTradingEngine (trading_engine.py), RiskManager                 *)
(* (risk_manager.py) and the collaborators they call.                     *)
(*                                                                         *)
(* Conventions                                                             *)
(*  - Prices and money are integers in paise (1/100 rupee), so the 0.01   *)
(*    offsets are 1 and arithmetic is exact decimal arithmetic; the       *)
(*    binary rounding of Python floats is not modelled.                   *)
(*  - Times of day are minutes since midnight (09:57 is 597).             *)
(*  - A value called sma is the SUM of the last SMA_PERIOD closes, that   *)
(*    is the SMA times SMA_PERIOD; "x > SMA" is x * SMA_PERIOD > sma.     *)
(*  - Lines 274-313 of trading_engine.py are dedented out of the try      *)
(*    block that starts at line 261; they are read as its body, in order. *)
(***************************************************************************)
EXTENDS Integers, Sequences, FiniteSets, Bags, TLC

\* ------------------------------------------------------------------ bounds

\* start_trading calls per symbol
MaxStarts == 2
\* evaluations of one symbol suspended at the candle fetch at the same time
MaxTasks == 2
\* positions entered in one session: start_trading calls per symbol while
\* the entry sequence is replayed, and the largest positions_count visited
MaxEntries == 6

\* manual reconnect attempts of the WebSocketManager followed in one chain
MaxAttempts == 32

\* ------------------------------------------------- configuration constants

SMA_PERIOD == 50
ENTRY_OFFSET == 1
SL_OFFSET == 1
RISK_REWARD_RATIO == 5
MIN_WICK_PERCENT == 15
SKIP_CANDLES == 2
MAX_POSITION_SIZE == 100000 * 100
MAX_DAILY_LOSS == 10000 * 100
max_positions == 5
fixed_capital_per_trade == 100000 * 100
default_freeze_limit == 1000

MARKET_OPEN == 9 * 60 + 15
MARKET_CLOSE == 15 * 60 + 30
FORCE_EXIT_TIME == 15 * 60
ENTRY_CUTOFF == 13 * 60
setup_window_start == 9 * 60 + 57
setup_window_end == 10 * 60 + 5

Symbols == {"RELIANCE", "XYZ"}

freeze_limits(symbol) ==
    IF symbol = "RELIANCE" THEN 10000 ELSE default_freeze_limit

\* --------------------------------------------------------------- data model

Min(a, b) == IF a < b THEN a ELSE b
Max(a, b) == IF a > b THEN a ELSE b
Abs(a) == IF a < 0 THEN -a ELSE a

\* CandleData; volume is never read by the engine
Candle(ts, o, h, l, c) ==
    [timestamp |-> ts, open |-> o, high |-> h, low |-> l, close |-> c]

\* Optional[CandleData] = None
NoCandle == Candle(0, 0, 0, 0, 0)

\* StrategyState(symbol=..., last_update=...): the defaults of models.py
NewStrategyState ==
    [bias |-> "none", setup_candle |-> NoCandle, rejection_candle |-> NoCandle,
     skip_candles_remaining |-> 0, entry_price |-> 0, stop_loss |-> 0,
     target |-> 0, is_position_active |-> FALSE, trade_completed |-> FALSE]

\* RiskManager.__init__
NewRiskState == [daily_pnl |-> 0, positions_count |-> 0]

\* --------------------------------------------------------- pure functions

\* A list of candles is kept run-length encoded: a sequence of runs
\* [n, candle], each standing for n consecutive copies of candle.
RECURSIVE LenRuns(_)
LenRuns(runs) ==
    IF runs = <<>> THEN 0 ELSE Head(runs).n + LenRuns(Tail(runs))

\* candles[-1]
LastCandle(runs) == runs[Len(runs)].candle

\* sum of the closes of the last k candles of the first i runs
RECURSIVE SumLastCloses(_, _, _)
SumLastCloses(runs, i, k) ==
    IF k <= 0 \/ i = 0 THEN 0
    ELSE Min(k, runs[i].n) * runs[i].candle.close
         + SumLastCloses(runs, i - 1, k - runs[i].n)

\* _calculate_sma: sum(closes of the last `period` candles) / period,
\* returned scaled by `period`
calculate_sma(candles, period) ==
    IF LenRuns(candles) < period THEN 0
    ELSE SumLastCloses(candles, Len(candles), period)

\* _calculate_quantity with position_sizing = "fixed_capital", leverage 1.0
calculate_quantity(entry_price, stop_loss) ==
    Max(1, fixed_capital_per_trade \div entry_price)

\* compute_target with the reward added for both directions
compute_target_added(direction, entry_price, stop_loss) ==
    entry_price + Abs(entry_price - stop_loss) * RISK_REWARD_RATIO

\* _enter_position lines 435-436
compute_target(direction, entry_price, stop_loss) ==
    LET risk == Abs(entry_price - stop_loss)
    IN  IF direction = "long"
        THEN entry_price + risk * RISK_REWARD_RATIO
        ELSE entry_price - risk * RISK_REWARD_RATIO

\* setup_class with the SMA touching the low counted as above it
setup_class_touching(candle, sma) ==
    IF candle.low * SMA_PERIOD >= sma THEN "long"
    ELSE IF candle.high * SMA_PERIOD < sma THEN "short"
    ELSE "invalid"

\* _check_setup: the outcome of the classification
setup_class(candle, sma) ==
    IF candle.low * SMA_PERIOD > sma THEN "long"
    ELSE IF candle.high * SMA_PERIOD < sma THEN "short"
    ELSE "invalid"

\* _check_setup: the StrategyState it leaves
check_setup(state, candle, sma) ==
    LET k == setup_class(candle, sma)
    IN  IF k = "invalid"
        THEN [state EXCEPT !.trade_completed = TRUE]
        ELSE [state EXCEPT !.bias = k, !.setup_candle = candle]

\* rejection_confirmed without the test of the wick
rejection_confirmed_any_wick(bias, candle, sma) ==
    LET body_low == Min(candle.open, candle.close)
        body_high == Max(candle.open, candle.close)
    IN  IF bias = "long"
        THEN /\ candle.low * SMA_PERIOD <= sma
             /\ sma <= body_low * SMA_PERIOD
             /\ body_high * SMA_PERIOD > sma
        ELSE /\ bias = "short"
             /\ body_high * SMA_PERIOD <= sma
             /\ sma <= candle.high * SMA_PERIOD
             /\ body_low * SMA_PERIOD < sma

\* _check_rejection, lines 355-381: does the candle confirm the rejection?
\* (only evaluated when high > low; high = low raises ZeroDivisionError)
rejection_confirmed(bias, candle, sma) ==
    LET candle_range == candle.high - candle.low
        body_low == Min(candle.open, candle.close)
        body_high == Max(candle.open, candle.close)
    IN  IF bias = "long"
        THEN /\ candle.low * SMA_PERIOD <= sma
             /\ sma <= body_low * SMA_PERIOD
             /\ body_high * SMA_PERIOD > sma
             /\ (body_low - candle.low) * 100 >= MIN_WICK_PERCENT * candle_range
        ELSE /\ bias = "short"
             /\ body_high * SMA_PERIOD <= sma
             /\ sma <= candle.high * SMA_PERIOD
             /\ body_low * SMA_PERIOD < sma
             /\ (candle.high - body_high) * 100 >= MIN_WICK_PERCENT * candle_range

\* _check_rejection, lines 383-387: the SMA is crossed
sma_crossed(bias, candle, sma) ==
    \/ bias = "long" /\ candle.low * SMA_PERIOD < sma
    \/ bias = "short" /\ candle.high * SMA_PERIOD > sma

\* _check_rejection: [raised, state]; the division by candle_range comes first
check_rejection(state, candle, sma) ==
    IF candle.high = candle.low
    THEN [raised |-> TRUE, state |-> state]
    ELSE LET s1 == IF rejection_confirmed(state.bias, candle, sma)
                   THEN [state EXCEPT !.rejection_candle = candle,
                                      !.skip_candles_remaining = SKIP_CANDLES]
                   ELSE state
             s2 == IF sma_crossed(state.bias, candle, sma)
                   THEN [s1 EXCEPT !.trade_completed = TRUE]
                   ELSE s1
         IN  [raised |-> FALSE, state |-> s2]

\* _check_entry: the levels derived from the rejection candle
entry_level(state) ==
    IF state.bias = "long"
    THEN state.rejection_candle.high + ENTRY_OFFSET
    ELSE state.rejection_candle.low - ENTRY_OFFSET

stop_level(state) ==
    IF state.bias = "long"
    THEN state.rejection_candle.low - SL_OFFSET
    ELSE state.rejection_candle.high + SL_OFFSET

\* _check_entry: is _enter_position called for this candle?
entry_triggered(state, candle) ==
    /\ state.rejection_candle # NoCandle
    /\ \/ state.bias = "long" /\ candle.high >= entry_level(state)
       \/ state.bias = "short" /\ candle.low <= entry_level(state)

\* ------------------------------------------------------------- Risk Gate

\* An order's price: a number, None (emergency exit) or a string (the
\* arguments of _exit_position as _force_exit_all_positions passes them)
Num(v) == [kind |-> "num", v |-> v]
PriceNone == [kind |-> "none", v |-> 0]
PriceStr == [kind |-> "str", v |-> 0]

\* What get_ltp returned: {} after a failure ("empty"), the symbol mapped to
\* its price as ZerodhaClient.get_ltp builds it ("flat"), or the symbol
\* mapped to a dict with 'last_price' as validate_circuit_limits reads it
\* ("nested", only a client other than ZerodhaClient)
LtpEmpty == [shape |-> "empty", last_price |-> 0]
LtpFlat(v) == [shape |-> "flat", last_price |-> v]
LtpNested(v) == [shape |-> "nested", last_price |-> v]

\* validate_circuit_limits: "OK" or the error it raises
validate_circuit_limits(ltp, price) ==
    IF ltp.shape = "flat" THEN "AttributeError"
    ELSE IF ltp.shape = "empty" \/ ltp.last_price = 0 THEN "LTP_ERROR"
    ELSE IF ~(ltp.last_price * 80 <= price * 100
              /\ price * 100 <= ltp.last_price * 120)
    THEN "CIRCUIT_LIMIT"
    ELSE "OK"

\* validate_freeze_quantity
validate_freeze_quantity(symbol, quantity) ==
    IF quantity > freeze_limits(symbol) THEN "FREEZE_LIMIT" ELSE "OK"

\* validate_order_risk, lines 100-107: the margin check. Both the failed
\* lookup and the "Insufficient margin" exception raised inside the try are
\* caught by the except of line 106 and logged as a warning.
margin_check(order_value, margin) ==
    IF ~margin.ok THEN "warning"
    ELSE IF order_value > margin.live_balance THEN "warning"
    ELSE "passed"

\* validate_order_risk without the position-size check of lines 79-80
validate_order_risk_unsized(order, risk, ltp, margin) ==
    IF risk.daily_pnl <= -MAX_DAILY_LOSS THEN "RISK_LIMIT"
    ELSE IF order.price.kind # "num" THEN "TypeError"
    ELSE LET order_value == order.quantity * order.price.v
         IN  IF risk.positions_count >= max_positions THEN "MAX_POSITIONS"
             ELSE LET circuit == IF order.price.v # 0
                                 THEN validate_circuit_limits(ltp, order.price.v)
                                 ELSE "OK"
                      freeze == validate_freeze_quantity(order.symbol, order.quantity)
                  IN  IF circuit # "OK" THEN circuit
                      ELSE IF freeze # "OK" THEN freeze
                      ELSE IF margin_check(order_value, margin) \in {"warning", "passed"}
                      THEN "OK"
                      ELSE "MARGIN_INSUFFICIENT"

\* validate_order_risk: "OK" (returns True) or the error it raises
validate_order_risk(order, risk, ltp, margin) ==
    IF risk.daily_pnl <= -MAX_DAILY_LOSS THEN "RISK_LIMIT"
    ELSE IF order.price.kind # "num" THEN "TypeError"
    ELSE LET order_value == order.quantity * order.price.v
         IN  IF order_value > MAX_POSITION_SIZE THEN "POSITION_LIMIT"
             ELSE IF risk.positions_count >= max_positions THEN "MAX_POSITIONS"
             ELSE LET circuit == IF order.price.v # 0
                                 THEN validate_circuit_limits(ltp, order.price.v)
                                 ELSE "OK"
                      freeze == validate_freeze_quantity(order.symbol, order.quantity)
                  IN  IF circuit # "OK" THEN circuit
                      ELSE IF freeze # "OK" THEN freeze
                      ELSE IF margin_check(order_value, margin) \in {"warning", "passed"}
                      THEN "OK"
                      ELSE "MARGIN_INSUFFICIENT"

\* ------------------------------------------------- Position Ledger & Execution

\* is_market_open on a trading day
is_market_open(t) == MARKET_OPEN <= t /\ t <= MARKET_CLOSE

\* place_order_with_validation: [code, status, submitted, gates]. code is
\* "OK" or the error raised; status is the 'status' of the dict place_order
\* returned; submitted tells whether zerodha.place_order was called; gates
\* holds what validate_order_risk answered, if it was called.
\* env is what the collaborators answer during the call.
place_order_with_validation(order, t, risk, env) ==
    LET gate == validate_order_risk(order, risk, env.ltp, env.margin)
    IN  IF ~is_market_open(t)
        THEN [code |-> "MARKET_CLOSED", status |-> "none", submitted |-> FALSE,
              gates |-> <<>>]
        ELSE IF gate # "OK"
        THEN [code |-> gate, status |-> "none", submitted |-> FALSE,
              gates |-> <<gate>>]
        ELSE IF env.verify \notin {"COMPLETE", "OPEN"}
        THEN [code |-> "ORDER_FAILED", status |-> env.broker, submitted |-> TRUE,
              gates |-> <<gate>>]
        ELSE [code |-> "OK", status |-> env.broker, submitted |-> TRUE,
              gates |-> <<gate>>]

\* Position(...) of _enter_position, lines 474-486; exits counts the exit
\* orders handed to zerodha.place_order for the position
NewPosition(symbol, direction, entry_price, stop_loss, target, quantity) ==
    [symbol |-> symbol, direction |-> direction, entry_price |-> entry_price,
     current_price |-> entry_price, stop_loss |-> stop_loss, target |-> target,
     quantity |-> quantity, status |-> "ACTIVE", unrealized_pnl |-> 0,
     realized_pnl |-> 0, exit_price |-> PriceNone, exit_reason |-> "None",
     exits |-> 0]

\* A world is the engine's mutable state during one handler:
\*   st         the StrategyState objects, by <<symbol, generation>>
\*   positions  self.positions
\*   risk       the RiskManager's counters
\*   orders     orders handed to zerodha.place_order so far
\*   raised     an exception is propagating out of the handler
\*   gates      the answers of validate_order_risk during the handler
\*   exits      the calls of _exit_position during the handler

\* _enter_position counting the position at the Risk Gate before the order
\* is placed
enter_position_counted_first(w, obj, direction, entry_price, stop_loss, dry, t, env) ==
    LET target == compute_target(direction, entry_price, stop_loss)
        quantity == calculate_quantity(entry_price, stop_loss)
        order == [symbol |-> obj[1], quantity |-> quantity, price |-> Num(entry_price)]
        res == place_order_with_validation(order, t, w.risk, env)
        counted == [w EXCEPT !.risk.positions_count = @ + 1]
        called == IF dry THEN counted ELSE [counted EXCEPT !.gates = @ \o res.gates]
        sent == IF ~dry /\ res.submitted
                THEN [called EXCEPT !.orders = @ + 1] ELSE called
        entered ==
            [sent EXCEPT
                !.positions = Append(@, NewPosition(obj[1], direction, entry_price,
                                                    stop_loss, target, quantity)),
                !.st[obj].is_position_active = TRUE,
                !.st[obj].entry_price = entry_price,
                !.st[obj].stop_loss = stop_loss,
                !.st[obj].target = target]
    IN  IF dry THEN entered
        ELSE IF res.code # "OK" THEN [sent EXCEPT !.raised = TRUE]
        ELSE IF res.status # "success" THEN sent
        ELSE entered

\* _enter_position handing the order to the brokerage in dry-run mode too
enter_position_ordering_dry(w, obj, direction, entry_price, stop_loss, dry, t, env) ==
    LET target == compute_target(direction, entry_price, stop_loss)
        quantity == calculate_quantity(entry_price, stop_loss)
        sent == [w EXCEPT !.orders = @ + 1]
    IN  [sent EXCEPT
            !.positions = Append(@, NewPosition(obj[1], direction, entry_price,
                                                stop_loss, target, quantity)),
            !.risk.positions_count = @ + 1,
            !.st[obj].is_position_active = TRUE,
            !.st[obj].entry_price = entry_price,
            !.st[obj].stop_loss = stop_loss,
            !.st[obj].target = target]

\* _enter_position
enter_position(w, obj, direction, entry_price, stop_loss, dry, t, env) ==
    LET target == compute_target(direction, entry_price, stop_loss)
        quantity == calculate_quantity(entry_price, stop_loss)
        order == [symbol |-> obj[1], quantity |-> quantity, price |-> Num(entry_price)]
        res == place_order_with_validation(order, t, w.risk, env)
        called == IF dry THEN w ELSE [w EXCEPT !.gates = @ \o res.gates]
        sent == IF ~dry /\ res.submitted
                THEN [called EXCEPT !.orders = @ + 1] ELSE called
        entered ==
            [sent EXCEPT
                !.positions = Append(@, NewPosition(obj[1], direction, entry_price,
                                                    stop_loss, target, quantity)),
                !.risk.positions_count = @ + 1,
                !.st[obj].is_position_active = TRUE,
                !.st[obj].entry_price = entry_price,
                !.st[obj].stop_loss = stop_loss,
                !.st[obj].target = target]
    IN  IF dry THEN entered
        ELSE IF res.code # "OK" THEN [sent EXCEPT !.raised = TRUE]
        ELSE IF res.status # "success" THEN sent
        ELSE entered

\* _check_entry
check_entry(w, obj, candle, dry, t, env) ==
    IF entry_triggered(w.st[obj], candle)
    THEN enter_position(w, obj, w.st[obj].bias, entry_level(w.st[obj]),
                        stop_level(w.st[obj]), dry, t, env)
    ELSE w

\* _exit_position; cur[symbol] is the generation of strategy_states[symbol].
\* Position (models.py, lines 34-47) declares no field exit_price, so the
\* assignment of line 568 raises ValueError right after line 567 has set the
\* status: lines 569-589 do not run. Every exception is caught inside
\* (lines 596-602).
exit_position(w, i, exit_reason, exit_price, cur, dry, t, env) ==
    LET position == w.positions[i]
        order == [symbol |-> position.symbol, quantity |-> position.quantity,
                  price |-> exit_price]
        res == place_order_with_validation(order, t, w.risk, env)
        asked == [w EXCEPT !.exits = Append(@, [symbol |-> position.symbol,
                                                reason |-> exit_reason,
                                                price |-> exit_price])]
        called == [asked EXCEPT !.gates = @ \o res.gates]
        sent == IF res.submitted
                THEN [called EXCEPT !.orders = @ + 1, !.positions[i].exits = @ + 1]
                ELSE called
    IN  IF dry THEN asked
        ELSE IF res.code # "OK" THEN sent
        ELSE IF res.status # "success" THEN sent
        ELSE [sent EXCEPT !.positions[i].status = "CLOSED"]

\* ActiveIdx without the test of the status
ActiveIdx_any_status(positions, symbol) ==
    {i \in 1..Len(positions) : positions[i].symbol = symbol}

\* the indexes of the ACTIVE positions of a symbol, in list order
ActiveIdx(positions, symbol) ==
    {i \in 1..Len(positions) :
        positions[i].symbol = symbol /\ positions[i].status = "ACTIVE"}

MinOf(S) == CHOOSE x \in S : \A y \in S : x <= y

stop_loss_hit(position, candle) ==
    \/ position.direction = "long" /\ candle.low <= position.stop_loss
    \/ position.direction = "short" /\ candle.high >= position.stop_loss

target_hit(position, candle) ==
    \/ position.direction = "long" /\ candle.high >= position.target
    \/ position.direction = "short" /\ candle.low <= position.target

\* _monitor_position with the target tested before the stop-loss
monitor_position_target_first(w, symbol, candle, cur, dry, t, env) ==
    IF ActiveIdx(w.positions, symbol) = {} THEN w
    ELSE LET i == MinOf(ActiveIdx(w.positions, symbol))
             p == w.positions[i]
             pnl == IF p.direction = "long"
                    THEN (candle.close - p.entry_price) * p.quantity
                    ELSE (p.entry_price - candle.close) * p.quantity
             w1 == [w EXCEPT !.positions[i].current_price = candle.close,
                             !.positions[i].unrealized_pnl = pnl]
         IN  IF target_hit(p, candle)
             THEN exit_position(w1, i, "TARGET", Num(p.target), cur, dry, t, env)
             ELSE IF stop_loss_hit(p, candle)
             THEN exit_position(w1, i, "STOP_LOSS", Num(p.stop_loss), cur, dry, t, env)
             ELSE w1

\* _monitor_position
monitor_position(w, symbol, candle, cur, dry, t, env) ==
    IF ActiveIdx(w.positions, symbol) = {} THEN w
    ELSE LET i == MinOf(ActiveIdx(w.positions, symbol))
             p == w.positions[i]
             pnl == IF p.direction = "long"
                    THEN (candle.close - p.entry_price) * p.quantity
                    ELSE (p.entry_price - candle.close) * p.quantity
             w1 == [w EXCEPT !.positions[i].current_price = candle.close,
                             !.positions[i].unrealized_pnl = pnl]
         IN  IF stop_loss_hit(p, candle)
             THEN exit_position(w1, i, "STOP_LOSS", Num(p.stop_loss), cur, dry, t, env)
             ELSE IF target_hit(p, candle)
             THEN exit_position(w1, i, "TARGET", Num(p.target), cur, dry, t, env)
             ELSE w1

\* ------------------------------------------------------ the market (inputs)

\* The instants of the trading day the clock visits, in minutes since midnight
Instants == <<600, 610, 905>>

\* Candle shapes <<open, high, low, close>> the feed may deliver as the
\* latest candle
AboveSma == <<10150, 10300, 10100, 10250>>
WickThrough == <<10200, 10200, 9950, 10150>>
WickTouch == <<10200, 10200, 10000, 10150>>
BreakUp == <<10200, 10310, 10190, 10300>>
Wide == <<10250, 11300, 9900, 11250>>
Flat == <<10100, 10100, 10100, 10100>>
BelowSma == <<9850, 9900, 9700, 9750>>
WickTouchUp == <<9800, 10000, 9800, 9850>>
BreakDown == <<9800, 9810, 9700, 9720>>
DropLow == <<10150, 10160, 9900, 9950>>

Shapes == {AboveSma, WickTouch, Wide, Flat, BelowSma}

\* SMA values (in paise) of the histories the feed delivers
SmaLevels == {10000}

\* Candle sequences the feed delivers one candle at a time, with one engine
\* evaluation per candle. The first is the scenario of the specification:
\* setup candle 101-103, rejection candle 99.5-102, two skipped candles, a
\* candle reaching 103.01, a candle falling to 99.00
Scripts ==
    { <<AboveSma, WickThrough, AboveSma, AboveSma, BreakUp, DropLow>>,
      <<AboveSma, WickTouch, AboveSma, AboveSma, BreakUp, DropLow>>,
      <<AboveSma, WickTouch, AboveSma, AboveSma, BreakUp, Wide>>,
      <<BelowSma, WickTouchUp, BelowSma, BelowSma, BreakDown, Wide>>,
      <<AboveSma, WickTouch, AboveSma, AboveSma, Wide, DropLow>> }

\* A history of n candles that ends with `latest` and, when n > SMA_PERIOD,
\* whose last SMA_PERIOD closes average to s
History(s, latest, n) ==
    << [n |-> n - 2, candle |-> Candle(0, s, s, s, s)],
       [n |-> 1, candle |-> Candle(0, s, s, s, 2 * s - latest.close)],
       [n |-> 1, candle |-> latest] >>

\* The answers of the free feed to one _get_candle_data at clock position k:
\* a failed fetch ("empty"), a history one candle short ("short"), or a full
\* history whose latest candle is stamped with the present instant
Fetches(k) ==
    [kind : {"full"}, s : SmaLevels, ts : {Instants[k]}, shape : Shapes]
    \cup [kind : {"empty", "short"}, s : SmaLevels, ts : {Instants[k]},
          shape : {AboveSma}]

\* _get_candle_data: the list of candles returned for an answer of the feed
get_candle_data(f) ==
    LET x == f.shape
        latest == Candle(f.ts, x[1], x[2], x[3], x[4])
    IN  IF f.kind = "empty" THEN <<>>
        ELSE IF f.kind = "short" THEN History(f.s, latest, SMA_PERIOD)
        ELSE History(f.s, latest, SMA_PERIOD + 1)

\* What the brokerage's collaborators answer to the engine: get_ltp is
\* ZerodhaClient.get_ltp (flat, or empty after an error); ZerodhaClient has
\* no get_margins, so the margin lookup fails
NoMargin == [ok |-> FALSE, live_balance |-> 0]

Envs ==
    [ltp : {LtpEmpty, LtpFlat(10000)}, margin : {NoMargin},
     broker : {"success"}, verify : {"COMPLETE"}]

\* What a brokerage client other than ZerodhaClient may answer, whose
\* get_ltp maps the symbol to a dict with 'last_price'
StubEnvs ==
    [ltp : {LtpNested(10000), LtpEmpty}, margin : {NoMargin},
     broker : {"success", "error"}, verify : {"COMPLETE", "REJECTED"}]

\* A brokerage that answers every lookup and accepts every order
AcceptEnvs ==
    [ltp : {LtpNested(10000)}, margin : {NoMargin},
     broker : {"success"}, verify : {"COMPLETE"}]

\* In dry-run mode no collaborator of the brokerage is called
DryEnv == [ltp |-> LtpEmpty, margin |-> NoMargin,
           broker |-> "error", verify |-> "REJECTED"]

\* ------------------------------------------------------------------- state

VARIABLES
    clock,       \* position in Instants: the time of day
    dry_run,     \* settings.dry_run
    gen,         \* gen[s] > 0: s is in strategy_states, as object <<s, gen[s]>>
    st,          \* the StrategyState objects ever created
    positions,   \* self.positions
    risk,        \* risk_manager.daily_pnl and .positions_count
    orders,      \* number of orders handed to zerodha.place_order
    tasks,       \* bag of _process_symbol_strategy tasks not yet finished
    feed,        \* the market (free, or a script and the position in it)
                 \* and the kind of brokerage client the engine was given
    lastEval,    \* what the latest finished evaluation saw and did
    lastGate,    \* the latest call of validate_order_risk made on its own
    session,     \* is_running, the ConnectionMonitor and the WebSocketManager
    api          \* the latest call of EnhancedErrorHandler.handle_api_call

vars == <<clock, dry_run, gen, st, positions, risk, orders, tasks, feed,
          lastEval, lastGate, session, api>>

now == Instants[clock]

Objs == Symbols \X (1..Max(MaxStarts, MaxEntries))

\* no round of _process_all_symbols
NoCycle == [cur |-> <<>>, log |-> <<>>]

NoEval == [obj |-> <<"", 0>>, branch |-> "none", candle |-> NoCandle,
           sma |-> 0, before |-> NewStrategyState, after |-> NewStrategyState,
           monitored |-> FALSE, raised |-> FALSE, gates |-> <<>>,
           exits |-> <<>>, cycle |-> NoCycle, at |-> 0]

\* no call of handle_api_call made on its own: attempt is the loop variable,
\* calls counts the invocations of the wrapped function, refreshes those of
\* refresh_session_if_needed, seen lists how the invocations ended, status
\* is "idle", "running", "returned" or the error_code raised
NoCall == [attempt |-> 0, calls |-> 0, refreshes |-> 0, seen |-> <<>>,
           refresh_failed |-> FALSE, status |-> "idle"]

NoGate == [order |-> [symbol |-> "", quantity |-> 0, price |-> PriceNone],
           risk |-> NewRiskState, ltp |-> LtpEmpty, margin |-> NoMargin,
           code |-> "none"]

\* is_running = False (line 22); connection_monitor and websocket_manager
\* are None, kept as objects that monitor nothing and are not connected;
\* stopped: stop_trading was called after the latest start_trading;
\* subscribed_tokens: WebSocketManager.subscribed_tokens, as a set;
\* resubscribed: the tokens the latest on_connect handed to kws.subscribe;
\* asked: the tokens handed to subscribe and not to unsubscribe since;
\* reconnect_attempts: WebSocketManager.reconnect_attempts;
\* reconnect_delay: the delay of the latest handle_reconnect, in seconds;
\* reconnecting: a handle_reconnect is asleep before its connect
NewSession == [is_running |-> FALSE, is_monitoring |-> FALSE,
               is_connected |-> FALSE, consecutive_failures |-> 0,
               stopped |-> FALSE, subscribed_tokens |-> {},
               resubscribed |-> {}, asked |-> {},
               reconnect_attempts |-> 0, reconnect_delay |-> 0,
               reconnecting |-> FALSE]

FreeFeed == [script |-> <<>>, pos |-> 0, ticked |-> FALSE, trace |-> FALSE,
             symbols |-> {"RELIANCE"}, client |-> "ZerodhaClient",
             starts |-> MaxStarts, cycle |-> 0, repeat |-> FALSE]

InitEngine ==
    /\ clock = 1
    /\ dry_run = TRUE
    /\ gen = [s \in Symbols |-> 0]
    /\ st = [o \in Objs |-> NewStrategyState]
    /\ positions = <<>>
    /\ risk = NewRiskState
    /\ orders = 0
    /\ tasks = EmptyBag
    /\ lastEval = NoEval
    /\ lastGate = NoGate
    /\ session = NewSession
    /\ api = NoCall

Init ==
    /\ InitEngine
    /\ feed = FreeFeed

\* A StrategyState object that start_trading has replaced in strategy_states
\* and that no unfinished task holds can no longer be reached: it is
\* garbage, kept here as a fresh object.
collect(stf, genf, taskb) ==
    [o \in Objs |->
        IF o[2] < genf[o[1]] /\ \A k \in BagToSet(taskb) : k.obj # o
        THEN NewStrategyState ELSE stf[o]]

World == [st |-> st, positions |-> positions, risk |-> risk,
          orders |-> orders, raised |-> FALSE, gates |-> <<>>,
          exits |-> <<>>]

\* ---------------------------------------------------- _process_symbol_strategy

in_setup_window(candle) ==
    setup_window_start <= candle.timestamp /\ candle.timestamp <= setup_window_end

\* branch_of with the setup check run for every candle of the window
branch_of_any_bias(state, candle) ==
    IF in_setup_window(candle) THEN "setup"
    ELSE IF state.bias # "none" /\ state.rejection_candle = NoCandle THEN "rejection"
    ELSE IF state.rejection_candle # NoCandle /\ state.skip_candles_remaining > 0
    THEN "skip"
    ELSE IF /\ state.rejection_candle # NoCandle
            /\ state.skip_candles_remaining = 0
            /\ ~state.is_position_active
    THEN "entry"
    ELSE "idle"

\* the branch of the if/elif chain of lines 291-309 a state and candle select
branch_of(state, candle) ==
    IF in_setup_window(candle) /\ state.bias = "none" THEN "setup"
    ELSE IF state.bias # "none" /\ state.rejection_candle = NoCandle THEN "rejection"
    ELSE IF state.rejection_candle # NoCandle /\ state.skip_candles_remaining > 0
    THEN "skip"
    ELSE IF /\ state.rejection_candle # NoCandle
            /\ state.skip_candles_remaining = 0
            /\ ~state.is_position_active
    THEN "entry"
    ELSE "idle"

\* lines 274-313 for a sufficient history: the world after the evaluation.
\* current_time was read at line 262, before the fetch; t is the time now.
evaluate(w, obj, candles, current_time, cur, dry, t, env) ==
    LET latest_candle == LastCandle(candles)
        sma_value == calculate_sma(candles, SMA_PERIOD)
        b == branch_of(w.st[obj], latest_candle)
        rej == check_rejection(w.st[obj], latest_candle, sma_value)
        w1 == CASE b = "setup" ->
                    [w EXCEPT !.st[obj] = check_setup(@, latest_candle, sma_value)]
                [] b = "rejection" ->
                    [w EXCEPT !.st[obj] = rej.state, !.raised = rej.raised]
                [] b = "skip" ->
                    [w EXCEPT !.st[obj].skip_candles_remaining = @ - 1]
                [] b = "entry" ->
                    IF current_time <= ENTRY_CUTOFF
                    THEN check_entry(w, obj, latest_candle, dry, t, env)
                    ELSE w
                [] OTHER -> w
    IN  IF ~w1.raised /\ w1.st[obj].is_position_active
        THEN monitor_position(w1, obj[1], latest_candle, cur, dry, t, env)
        ELSE w1

\* ----------------------------------------------------------------- actions

\* start_trading(symbols) while the market is open and the session is valid:
\* a fresh StrategyState replaces the entry of every symbol given. The call
\* then fails at line 193 (self._trading_loop does not exist) and nothing
\* sets is_running, so no polling loop runs. feed.starts and feed.cycle say
\* how often and when the operator makes the call. Before that, line 171
\* has started a new ConnectionMonitor's start_monitoring and
\* setup_websocket_streaming has connected a new WebSocketManager (the
\* connection is taken to be up within the 2 s of line 100: otherwise
\* nothing is subscribed and no tick ever arrives).
start_trading(S) ==
    /\ is_market_open(now)
    /\ S \subseteq feed.symbols
    /\ \A s \in S : gen[s] < feed.starts
    /\ feed.cycle > 0 => feed.pos % feed.cycle = 0 /\ tasks = EmptyBag
    /\ gen' = [s \in Symbols |-> IF s \in S THEN gen[s] + 1 ELSE gen[s]]
    /\ st' = collect(st, gen', tasks)
    /\ session' = [session EXCEPT !.is_monitoring = TRUE, !.is_connected = TRUE,
                                  !.consecutive_failures = 0, !.stopped = FALSE,
                                  !.subscribed_tokens = S, !.resubscribed = {},
                                  !.asked = S, !.reconnect_attempts = 0,
                                  !.reconnect_delay = 0, !.reconnecting = FALSE]
    /\ UNCHANGED <<clock, dry_run, positions, risk, orders, tasks, feed, lastEval, lastGate,
                   api>>

\* update_settings({'dry_run': ...})
update_settings ==
    /\ dry_run' = ~dry_run
    /\ UNCHANGED <<clock, gen, st, positions, risk, orders, tasks, feed, lastEval, lastGate,
                   session, api>>

\* time passes
advance_clock ==
    /\ clock < Len(Instants)
    /\ clock' = clock + 1
    /\ UNCHANGED <<dry_run, gen, st, positions, risk, orders, tasks, feed, lastEval, lastGate,
                   session, api>>

\* the scripted market forms its next candle, once the evaluation of the
\* present one has finished
next_candle ==
    /\ feed.pos < Len(feed.script)
    /\ feed.pos = 0 \/ feed.ticked
    /\ tasks = EmptyBag
    /\ feed' = [feed EXCEPT !.pos = @ + 1, !.ticked = FALSE]
    /\ UNCHANGED <<clock, dry_run, gen, st, positions, risk, orders, tasks, lastEval, lastGate,
                   session, api>>

Task(obj, pc, current_time, at) ==
    [obj |-> obj, pc |-> pc, current_time |-> current_time, at |-> at]

\* process_tick_data for a tick of a monitored symbol, called where an event
\* loop runs: create_task. (Called from a thread without a running loop,
\* create_task raises, line 133 logs it and nothing changes: no step.)
\* A scripted market sends one tick per candle or, with feed.repeat, tick
\* after tick while the candle forms, each once the evaluation started by
\* the tick before has finished.
process_tick_data(s) ==
    /\ gen[s] > 0
    /\ session.is_connected
    /\ BagCardinality(tasks) < MaxTasks
    /\ feed.script # <<>>
       => /\ feed.pos >= 1
          /\ ~feed.ticked \/ (feed.repeat /\ tasks = EmptyBag)
    /\ tasks' = tasks (+) SetToBag({Task(<<s, gen[s]>>, "created", 0, feed.pos)})
    /\ feed' = IF feed.script # <<>>
               THEN [feed EXCEPT !.ticked = TRUE] ELSE feed
    /\ UNCHANGED <<clock, dry_run, gen, st, positions, risk, orders, lastEval, lastGate,
                   session, api>>

\* what an evaluation leaves in lastEval
Traced(e) == IF feed.trace THEN e ELSE NoEval

\* _process_symbol_strategy, lines 262-269: up to the await of the fetch
task_begin(k) ==
    /\ BagIn(k, tasks)
    /\ k.pc = "created"
    /\ tasks' = IF st[k.obj].trade_completed
                THEN tasks (-) SetToBag({k})
                ELSE (tasks (-) SetToBag({k}))
                        (+) SetToBag({Task(k.obj, "fetching", now, k.at)})
    /\ lastEval' = IF st[k.obj].trade_completed
                   THEN Traced([NoEval EXCEPT !.obj = k.obj, !.branch = "completed",
                                              !.before = st[k.obj],
                                              !.after = st[k.obj]])
                   ELSE lastEval
    /\ st' = collect(st, gen, tasks')
    /\ UNCHANGED <<clock, dry_run, gen, positions, risk, orders, feed, lastGate,
                   session, api>>

\* the answers the feed may give to the fetch of task k
Answers(k) ==
    IF feed.script = <<>> THEN Fetches(clock)
    ELSE [kind : {"full"}, s : SmaLevels, ts : {now}, shape : {feed.script[k.at]}]

\* _process_symbol_strategy, lines 269-318: from the fetch's answer to the end
task_resume(k, f, env) ==
    /\ BagIn(k, tasks)
    /\ k.pc = "fetching"
    /\ tasks' = tasks (-) SetToBag({k})
    /\ LET candles == get_candle_data(f)
           sufficient == LenRuns(candles) >= SMA_PERIOD + 1
           w == IF sufficient
                THEN evaluate(World, k.obj, candles, k.current_time, gen,
                              dry_run, now, env)
                ELSE World
       IN  /\ st' = collect(w.st, gen, tasks')
           /\ positions' = w.positions
           /\ risk' = w.risk
           /\ orders' = w.orders
           /\ lastEval' = Traced(
                IF sufficient
                THEN [obj |-> k.obj,
                      branch |-> branch_of(st[k.obj], LastCandle(candles)),
                      candle |-> LastCandle(candles),
                      sma |-> calculate_sma(candles, SMA_PERIOD),
                      before |-> st[k.obj],
                      after |-> w.st[k.obj],
                      monitored |-> ~w.raised /\ w.st[k.obj].is_position_active,
                      raised |-> w.raised,
                      gates |-> w.gates,
                      exits |-> w.exits,
                      cycle |-> NoCycle,
                      at |-> k.at]
                ELSE [NoEval EXCEPT !.obj = k.obj, !.branch = "insufficient",
                                    !.before = st[k.obj], !.after = st[k.obj]])
    /\ UNCHANGED <<clock, dry_run, gen, feed, lastGate, session, api>>

\* what the brokerage may answer during one evaluation
ClientAnswers ==
    IF dry_run THEN {DryEnv}
    ELSE IF feed.client = "ZerodhaClient" THEN Envs
    ELSE IF feed.client = "stub" THEN StubEnvs
    ELSE AcceptEnvs

Engine ==
    \/ \E S \in (SUBSET Symbols) \ {{}} : start_trading(S)
    \/ update_settings
    \/ advance_clock
    \/ \E s \in Symbols : process_tick_data(s)
    \/ \E k \in BagToSet(tasks) : task_begin(k)
    \/ \E k \in BagToSet(tasks) :
        \E f \in Answers(k), env \in ClientAnswers : task_resume(k, f, env)

Next == Engine

\* The engine under a free market: any tick at any time, any candle of Shapes
Spec == Init /\ [][Next]_vars

\* ------------------------------------------------- the engine, candle by candle

\* Price levels of the single candles tried around an SMA of 100.00
Levels == {9900, 10000, 10100}

\* every candle with low <= open, close <= high over Levels, alone in a script
Singles ==
    { <<x>> : x \in { q \in Levels \X Levels \X Levels \X Levels :
                        /\ q[3] <= Min(q[1], q[4])
                        /\ Max(q[1], q[4]) <= q[2] } }

InitScript ==
    /\ InitEngine
    /\ \E sc \in Scripts \cup Singles :
        feed = [script |-> sc, pos |-> 0, ticked |-> FALSE, trace |-> TRUE,
                symbols |-> {"RELIANCE"}, client |-> "ZerodhaClient",
                starts |-> MaxStarts, cycle |-> 0, repeat |-> FALSE]

NextScript ==
    \/ Engine
    \/ next_candle

\* The engine fed a scripted candle sequence, one evaluation per candle
SpecScript == InitScript /\ [][NextScript]_vars

\* Candles whose wick to the SMA of 100.00 is 10 % and 15 % of their range,
\* below the body and above it
ThinWick == <<10010, 10100, 10000, 10100>>
EdgeWick == <<10015, 10100, 10000, 10100>>
ThinWickUp == <<9990, 10000, 9900, 9900>>
EdgeWickUp == <<9985, 10000, 9900, 9900>>

\* a setup candle above or below the SMA, then one candle of any shape
Pairs ==
    { <<first, x[1]>> :
        first \in {AboveSma, BelowSma},
        x \in Singles \cup {<<ThinWick>>, <<EdgeWick>>, <<ThinWickUp>>, <<EdgeWickUp>>} }

InitRejection ==
    /\ InitEngine
    /\ \E sc \in Pairs :
        feed = [script |-> sc, pos |-> 0, ticked |-> FALSE, trace |-> TRUE,
                symbols |-> {"RELIANCE"}, client |-> "ZerodhaClient",
                starts |-> 1, cycle |-> 0, repeat |-> FALSE]

\* The engine fed a setup candle and one candle after it
SpecRejection == InitRejection /\ [][NextScript]_vars

\* The free market for one start of the symbol, every evaluation traced:
\* fetches made at the same instant return the candle of that instant, in
\* whatever shape it has by then
InitForming ==
    /\ InitEngine
    /\ feed = [FreeFeed EXCEPT !.trace = TRUE, !.starts = 1]

SpecForming == InitForming /\ [][Next]_vars

\* The scenario's candles with several ticks during one candle
InitTicks ==
    /\ InitEngine
    /\ feed = [script |-> <<AboveSma, WickTouch, AboveSma, BreakUp>>, pos |-> 0,
               ticked |-> FALSE, trace |-> TRUE, symbols |-> {"RELIANCE"},
               client |-> "ZerodhaClient", starts |-> 1, cycle |-> 0,
               repeat |-> TRUE]

SpecTicks == InitTicks /\ [][NextScript]_vars

\* The scenario scripts with a brokerage client whose get_ltp answers in the
\* form validate_circuit_limits reads. One evaluation runs at a time, so
\* the awaits inside place_order_with_validation interleave with nothing
\* that reads or writes what the evaluation does.
InitBroker ==
    /\ InitEngine
    /\ \E sc \in Scripts :
        feed = [script |-> sc, pos |-> 0, ticked |-> FALSE, trace |-> TRUE,
                symbols |-> {"RELIANCE"}, client |-> "stub",
                starts |-> MaxStarts, cycle |-> 0, repeat |-> FALSE]

SpecBroker == InitBroker /\ [][NextScript]_vars

\* the candles that lead a freshly started symbol with long bias into a
\* position: setup, rejection, two skipped candles, entry trigger
EntryCycle == <<AboveSma, WickTouch, AboveSma, AboveSma, BreakUp>>

RECURSIVE Repeat(_, _)
Repeat(seq, n) == IF n = 0 THEN <<>> ELSE seq \o Repeat(seq, n - 1)

\* The entry sequence replayed; the operator starts the symbol again only
\* between two replays (feed.cycle), at most feed.starts times
InitLedger ==
    /\ InitEngine
    /\ feed = [script |-> Repeat(EntryCycle, MaxEntries), pos |-> 0,
               ticked |-> FALSE, trace |-> FALSE, symbols |-> {"RELIANCE"},
               client |-> "ZerodhaClient", starts |-> MaxEntries,
               cycle |-> Len(EntryCycle), repeat |-> FALSE]

SpecLedger == InitLedger /\ [][NextScript]_vars

\* a candle far above the entry that reaches the target of a long position
\* and stays above its stop
Rally == <<11200, 11300, 11150, 11250>>

\* The entry sequence replayed max_positions times, then a candle at the
\* target and a candle at the stop, with a brokerage that accepts every
\* order
InitExit ==
    /\ InitEngine
    /\ feed = [script |-> Repeat(EntryCycle, max_positions) \o <<Rally, DropLow>>,
               pos |-> 0, ticked |-> FALSE, trace |-> TRUE,
               symbols |-> {"RELIANCE"}, client |-> "accepting",
               starts |-> max_positions, cycle |-> Len(EntryCycle),
               repeat |-> FALSE]

SpecExit == InitExit /\ [][NextScript]_vars

\* ------------------------------------------- one round of _process_all_symbols

\* how _process_symbol_strategy ends once evaluate has left the world w1;
\* the except of line 316 catches whatever was raised
processed(w1) ==
    [w |-> [w1 EXCEPT !.raised = FALSE],
     outcome |-> IF w1.raised THEN "raised" ELSE "evaluated"]

\* _process_symbol_strategy from its first line to its last, nothing else
\* running in between: the world it leaves and how it ended
process_symbol_strategy(w, obj, f, cur, dry, t, env) ==
    IF w.st[obj].trade_completed
    THEN [w |-> w, outcome |-> "completed"]
    ELSE IF LenRuns(get_candle_data(f)) < SMA_PERIOD + 1
    THEN [w |-> w, outcome |-> "insufficient"]
    ELSE processed(evaluate(w, obj, get_candle_data(f), t, cur, dry, t, env))

\* the result of a round: symbol's processing ended as r, the rest of the
\* round as rest
round_result(symbol, r, rest) ==
    [w |-> rest.w,
     log |-> <<[symbol |-> symbol, outcome |-> r.outcome]>> \o rest.log]

RECURSIVE process_all_symbols_from(_, _, _, _, _, _, _, _)

\* the loop of _process_all_symbols left at the first symbol that raises
next_symbol_stopping(r, order, n, fs, cur, dry, t, env) ==
    round_result(order[n], r,
                 IF r.outcome = "raised" THEN [w |-> r.w, log |-> <<>>]
                 ELSE process_all_symbols_from(r.w, order, n + 1, fs, cur, dry,
                                               t, env))

\* lines 253-257: after the n-th symbol, whose processing ended as r, the
\* loop goes on with the next one
next_symbol(r, order, n, fs, cur, dry, t, env) ==
    round_result(order[n], r,
                 process_all_symbols_from(r.w, order, n + 1, fs, cur, dry, t, env))

\* the loop of _process_all_symbols from the n-th symbol of strategy_states
\* on: the world it leaves and, per symbol, how its processing ended
process_all_symbols_from(w, order, n, fs, cur, dry, t, env) ==
    IF n > Len(order) THEN [w |-> w, log |-> <<>>]
    ELSE next_symbol(process_symbol_strategy(w, <<order[n], cur[order[n]]>>,
                                             fs[order[n]], cur, dry, t, env),
                     order, n, fs, cur, dry, t, env)

\* the orders in which a dict with the keys S may iterate
Orders(S) ==
    {o \in [1..Cardinality(S) -> S] : \A x \in S : \E i \in DOMAIN o : o[i] = x}

\* _process_all_symbols, called on its own; fs[symbol] is what the feed
\* answers to the fetch made for the symbol
process_all_symbols(order, fs, env) ==
    /\ order # <<>>
    /\ LET r == process_all_symbols_from(World, order, 1, fs, gen, dry_run, now, env)
       IN  /\ st' = r.w.st
           /\ positions' = r.w.positions
           /\ risk' = r.w.risk
           /\ orders' = r.w.orders
           /\ lastEval' = Traced([NoEval EXCEPT
                    !.branch = "cycle",
                    !.cycle = [cur |-> gen, log |-> r.log]])
    /\ UNCHANGED <<clock, dry_run, gen, tasks, feed, lastGate, session, api>>

\* what the feed answers in a round: a full history and its latest candle
CycleFetches(k) ==
    [kind : {"full"}, s : SmaLevels, ts : {Instants[k]},
     shape : {AboveSma, WickTouch, BreakUp, Flat}]

\* Both symbols may be started, once each
InitCycle ==
    /\ InitEngine
    /\ feed = [script |-> <<>>, pos |-> 0, ticked |-> FALSE, trace |-> TRUE,
               symbols |-> Symbols, client |-> "ZerodhaClient", starts |-> 1,
               cycle |-> 0, repeat |-> FALSE]

NextCycle ==
    \/ \E S \in (SUBSET Symbols) \ {{}} : start_trading(S)
    \/ update_settings
    \/ \E order \in Orders({s \in Symbols : gen[s] > 0}) :
        \E fs \in [{s \in Symbols : gen[s] > 0} -> CycleFetches(clock)],
           env \in ClientAnswers :
            process_all_symbols(order, fs, env)

\* _process_all_symbols called round after round, within the setup window
SpecCycle == InitCycle /\ [][NextCycle]_vars

\* ------------------------------------------------------ stopping the engine

\* stop_trading
stop_trading ==
    /\ session' = [session EXCEPT !.is_running = FALSE, !.stopped = TRUE]
    /\ UNCHANGED <<clock, dry_run, gen, st, positions, risk, orders, tasks, feed,
                   lastEval, lastGate,
                   api>>

\* ConnectionMonitor.max_consecutive_failures
max_consecutive_failures == 3

\* one round of the loop of ConnectionMonitor.start_monitoring:
\* check_connection_health with get_profile answering (ok) or failing. The
\* session is valid, so refresh_session_if_needed returns.
check_connection_health(ok) ==
    /\ session.is_monitoring
    /\ session' = [session EXCEPT !.consecutive_failures =
                        IF ok THEN 0
                        ELSE IF @ + 1 >= max_consecutive_failures THEN 0
                        ELSE @ + 1]
    /\ UNCHANGED <<clock, dry_run, gen, st, positions, risk, orders, tasks, feed,
                   lastEval, lastGate,
                   api>>

\* WebSocketManager.on_close: the connection of a ticker that was set up is lost
on_close ==
    /\ session.is_connected
    /\ session' = [session EXCEPT !.is_connected = FALSE]
    /\ UNCHANGED <<clock, dry_run, gen, st, positions, risk, orders, tasks, feed,
                   lastEval, lastGate,
                   api>>

\* WebSocketManager.on_connect: the ticker, which nothing has closed, has
\* connected again; subscribed_tokens, when not empty, go to subscribe
on_connect ==
    /\ \E s \in Symbols : gen[s] > 0
    /\ ~session.is_connected
    /\ session' = [session EXCEPT !.is_connected = TRUE,
                                  !.reconnect_attempts = 0,
                                  !.resubscribed = session.subscribed_tokens]
    /\ UNCHANGED <<clock, dry_run, gen, st, positions, risk, orders, tasks, feed,
                   lastEval, lastGate,
                   api>>

\* WebSocketManager.subscribe(tokens) on the manager that start_trading set up
subscribe(tokens) ==
    /\ \E s \in Symbols : gen[s] > 0
    /\ session' = [session EXCEPT
                      !.subscribed_tokens =
                          IF session.is_connected /\ tokens # {} THEN tokens ELSE @,
                      !.asked = @ \cup tokens]
    /\ UNCHANGED <<clock, dry_run, gen, st, positions, risk, orders, tasks, feed,
                   lastEval, lastGate,
                   api>>

\* WebSocketManager.unsubscribe(tokens)
unsubscribe(tokens) ==
    /\ \E s \in Symbols : gen[s] > 0
    /\ session' = [session EXCEPT
                      !.subscribed_tokens =
                          IF session.is_connected THEN @ \ tokens ELSE @,
                      !.asked = @ \ tokens]
    /\ UNCHANGED <<clock, dry_run, gen, st, positions, risk, orders, tasks, feed,
                   lastEval, lastGate,
                   api>>

\* Both symbols may be started, once each, and the manager then driven
\* directly
InitSocket ==
    /\ InitEngine
    /\ feed = [FreeFeed EXCEPT !.symbols = Symbols, !.starts = 1]

NextSocket ==
    \/ \E S \in (SUBSET Symbols) \ {{}} : start_trading(S)
    \/ \E tokens \in SUBSET Symbols : subscribe(tokens)
    \/ \E tokens \in SUBSET Symbols : unsubscribe(tokens)
    \/ on_close
    \/ on_connect

SpecSocket == InitSocket /\ [][NextSocket]_vars

\* WebSocketManager.max_reconnect_delay, in seconds
max_reconnect_delay == 300

\* the delay of handle_reconnect without the cap
reconnect_delay_uncapped(attempts) == 10 * attempts

\* handle_reconnect, line 109
reconnect_delay(attempts) == Min(max_reconnect_delay, 10 * attempts)

\* handle_reconnect, lines 108-112: up to the sleep
handle_reconnect(sess) ==
    [sess EXCEPT !.reconnect_attempts = @ + 1,
                 !.reconnect_delay = reconnect_delay(sess.reconnect_attempts + 1),
                 !.reconnecting = TRUE]

\* WebSocketManager.connect called on the manager that start_trading set
\* up: kws.connect starts the ticker thread (ok) or raises, and then the
\* handler of lines 40-42 awaits handle_reconnect
connect(ok) ==
    /\ \E s \in Symbols : gen[s] > 0
    /\ ~session.reconnecting
    /\ ok \/ session.reconnect_attempts < MaxAttempts
    /\ session' = IF ok THEN session ELSE handle_reconnect(session)
    /\ UNCHANGED <<clock, dry_run, gen, st, positions, risk, orders, tasks, feed,
                   lastEval, lastGate,
                   api>>

\* handle_reconnect, lines 112-119: the sleep is over and connect is
\* awaited. connect catches what kws.connect raises and awaits
\* handle_reconnect itself, so no exception reaches line 116 and the test
\* of line 118 is not evaluated.
reconnect_wakes(ok) ==
    /\ session.reconnecting
    /\ ok \/ session.reconnect_attempts < MaxAttempts
    /\ session' = IF ok THEN [session EXCEPT !.reconnecting = FALSE]
                  ELSE handle_reconnect(session)
    /\ UNCHANGED <<clock, dry_run, gen, st, positions, risk, orders, tasks, feed,
                   lastEval, lastGate,
                   api>>

\* One start of one symbol, then the manager's connection driven directly
InitReconnect ==
    /\ InitEngine
    /\ feed = [FreeFeed EXCEPT !.starts = 1]

NextReconnect ==
    \/ \E S \in (SUBSET Symbols) \ {{}} : start_trading(S)
    \/ \E ok \in BOOLEAN : connect(ok)
    \/ \E ok \in BOOLEAN : reconnect_wakes(ok)
    \/ on_close
    \/ on_connect

SpecReconnect == InitReconnect /\ [][NextReconnect]_vars

\* ------------------------------------------ handle_api_call on its own

\* EnhancedErrorHandler.handle_api_call, line 21
max_retries == 3

\* how one invocation of the wrapped function may end: it returns, or it
\* raises TokenException, NetworkException, InputException, a KiteException
\* with code 429, another KiteException, or any other Exception
Outcomes == {"ok", "token", "network", "input", "rate", "kite", "other"}

\* a new call of handle_api_call, once the one before has ended
api_call_begin ==
    /\ api.status # "running"
    /\ api' = [NoCall EXCEPT !.status = "running"]
    /\ UNCHANGED <<clock, dry_run, gen, st, positions, risk, orders, tasks, feed,
                   lastEval, lastGate, session>>

\* lines 25-29: refresh_session_if_needed returns (the token is not near
\* its expiry) or raises TradingBotException SESSION_EXPIRED out of the call
after_token(a, refresh_ok) ==
    IF ~refresh_ok
    THEN [a EXCEPT !.status = "SESSION_EXPIRED", !.refreshes = @ + 1,
                   !.refresh_failed = TRUE]
    ELSE IF a.attempt = max_retries - 1
    THEN [a EXCEPT !.status = "SESSION_EXPIRED", !.refreshes = @ + 1]
    ELSE [a EXCEPT !.attempt = @ + 1, !.refreshes = @ + 1]

\* a retry that is never given up
after_retryable_unbounded(a, code) == [a EXCEPT !.attempt = @ + 1]

\* lines 30-34 and 46-50: retried after a sleep, raised on the last attempt
after_retryable(a, code) ==
    IF a.attempt = max_retries - 1 THEN [a EXCEPT !.status = code]
    ELSE [a EXCEPT !.attempt = @ + 1]

\* lines 40-43 and 52: continue; after the last attempt the loop is over
after_rate_limit(a) ==
    IF a.attempt = max_retries - 1 THEN [a EXCEPT !.status = "MAX_RETRIES_EXCEEDED"]
    ELSE [a EXCEPT !.attempt = @ + 1]

\* one round of the loop of handle_api_call, lines 22-50: the wrapped
\* function is invoked and ends with `outcome`
api_call_attempt(outcome, refresh_ok) ==
    /\ api.status = "running"
    /\ LET a == [api EXCEPT !.calls = @ + 1, !.seen = Append(@, outcome)]
       IN  api' = CASE outcome = "ok" -> [a EXCEPT !.status = "returned"]
                    [] outcome = "token" -> after_token(a, refresh_ok)
                    [] outcome = "network" -> after_retryable(a, "NETWORK_ERROR")
                    [] outcome = "input" -> [a EXCEPT !.status = "INVALID_INPUT"]
                    [] outcome = "rate" -> after_rate_limit(a)
                    [] outcome = "kite" -> [a EXCEPT !.status = "API_ERROR"]
                    [] OTHER -> after_retryable(a, "UNKNOWN_ERROR")
    /\ UNCHANGED <<clock, dry_run, gen, st, positions, risk, orders, tasks, feed,
                   lastEval, lastGate, session>>

NextApi ==
    \/ api_call_begin
    \/ \E outcome \in Outcomes, refresh_ok \in BOOLEAN :
          api_call_attempt(outcome, refresh_ok)

\* The error handler called directly, with any wrapped function
SpecApi == Init /\ [][NextApi]_vars

\* The scenario fed to an engine that is started once and may be stopped
InitStop ==
    /\ InitEngine
    /\ feed = [script |-> <<AboveSma, WickTouch, AboveSma>>, pos |-> 0,
               ticked |-> FALSE, trace |-> FALSE, symbols |-> {"RELIANCE"},
               client |-> "ZerodhaClient", starts |-> 1, cycle |-> 0, repeat |-> FALSE]

NextStop ==
    \/ NextScript
    \/ stop_trading
    \/ \E ok \in BOOLEAN : check_connection_health(ok)
    \/ on_close
    \/ on_connect

\* asyncio runs the health-check loop every 30 s and every task it was given
SpecStop ==
    /\ InitStop
    /\ [][NextStop]_vars
    /\ WF_vars(\E ok \in BOOLEAN : check_connection_health(ok))
    /\ WF_vars(\E k \in BagToSet(tasks) : task_begin(k))

\* -------------------------------------------------- the Risk Gate on its own

\* RiskManager.add_position: positions_count += 1, whatever the count is
add_position ==
    /\ risk.positions_count < MaxEntries
    /\ risk' = [risk EXCEPT !.positions_count = @ + 1]
    /\ UNCHANGED <<clock, dry_run, gen, st, positions, orders, tasks, feed,
                   lastEval, lastGate, session, api>>

\* RiskManager.remove_position
remove_position ==
    /\ risk' = [risk EXCEPT !.positions_count = Max(0, @ - 1)]
    /\ UNCHANGED <<clock, dry_run, gen, st, positions, orders, tasks, feed,
                   lastEval, lastGate, session, api>>

\* the profit or loss of one update_pnl call, in paise
PnlStep == MAX_DAILY_LOSS

\* RiskManager.update_pnl(pnl_change)
update_pnl(pnl_change) ==
    /\ -MAX_DAILY_LOSS <= risk.daily_pnl + pnl_change
    /\ risk.daily_pnl + pnl_change <= 0
    /\ risk' = [risk EXCEPT !.daily_pnl = @ + pnl_change]
    /\ UNCHANGED <<clock, dry_run, gen, st, positions, orders, tasks, feed,
                   lastEval, lastGate, session, api>>

\* the orders, last traded prices and margins the Risk Gate is tried with
GateOrders ==
    [symbol : Symbols, quantity : {1000, 1001, 2000},
     price : {Num(0), Num(5000), Num(10000), PriceNone}]

GateLtps == {LtpEmpty, LtpFlat(10000), LtpNested(10000)}

GateMargins == {NoMargin, [ok |-> TRUE, live_balance |-> 0]}

\* await risk_manager.validate_order_risk(order_params, zerodha_client)
validate(order, ltp, margin) ==
    /\ lastGate' = [order |-> order, risk |-> risk, ltp |-> ltp, margin |-> margin,
                    code |-> validate_order_risk(order, risk, ltp, margin)]
    /\ UNCHANGED <<clock, dry_run, gen, st, positions, risk, orders, tasks, feed,
                   lastEval, session, api>>

NextRisk ==
    \/ add_position
    \/ remove_position
    \/ \E x \in {-PnlStep, PnlStep} : update_pnl(x)
    \/ \E order \in GateOrders, ltp \in GateLtps, margin \in GateMargins :
        validate(order, ltp, margin)

\* The RiskManager called directly, with any client
SpecRisk == Init /\ [][NextRisk]_vars

\* Sessions started on an engine whose RiskManager has booked profit or
\* loss: update_pnl is called directly, as the exit of a position would
\* call it (trading_engine.py, line 573)
NextDay ==
    \/ \E S \in (SUBSET Symbols) \ {{}} : start_trading(S)
    \/ \E x \in {-PnlStep, PnlStep} : update_pnl(x)
    \/ \E order \in GateOrders, ltp \in GateLtps, margin \in GateMargins :
        validate(order, ltp, margin)

SpecDay == Init /\ [][NextDay]_vars

\* ============================================================== properties

\* the positions ever created for a symbol
PositionsOf(s) == {i \in 1..Len(positions) : positions[i].symbol = s}

\* the StrategyState strategy_states holds for a started symbol
Current(s) == <<s, gen[s]>>

\* C1: in every reachable state, every symbol has at most one Position with
\* status ACTIVE.
C1_AtMostOneActivePerSymbol ==
    \A s \in Symbols : Cardinality(ActiveIdx(positions, s)) <= 1

\* C2: once the StrategyState of a symbol has trade_completed = true, no
\* step of the engine changes a field of it, creates a position or sends an
\* order, as long as it is the symbol's StrategyState.
C2_NoTransitionAfterCompleted ==
    [][\A s \in Symbols :
          (gen[s] > 0 /\ gen'[s] = gen[s] /\ st[Current(s)].trade_completed)
          => /\ st'[Current(s)] = st[Current(s)]
             /\ Len(positions') = Len(positions)
             /\ orders' = orders]_vars

\* C3: within one session at most one Position is ever created for a
\* symbol, also when start_trading is called again for a monitored symbol.
C3_AtMostOnePositionPerSymbol ==
    \A s \in Symbols : Cardinality(PositionsOf(s)) <= 1

\* C4: an evaluation that classifies a setup candle leaves exactly one of
\* three outcomes, decided by the candle's low and high and the SMA alone:
\* long bias when low > SMA, short bias when high < SMA, and otherwise no
\* bias and trade_completed set; the first two store the setup candle.
C4_SetupClassification ==
    lastEval.branch = "setup"
    => LET c == lastEval.candle
           above == c.low * SMA_PERIOD > lastEval.sma
           below == c.high * SMA_PERIOD < lastEval.sma
           long == /\ lastEval.after.bias = "long"
                   /\ lastEval.after.setup_candle = c
                   /\ ~lastEval.after.trade_completed
           short == /\ lastEval.after.bias = "short"
                    /\ lastEval.after.setup_candle = c
                    /\ ~lastEval.after.trade_completed
           invalid == /\ lastEval.after.bias = "none"
                      /\ lastEval.after.setup_candle = NoCandle
                      /\ lastEval.after.trade_completed
       IN  /\ above => long
           /\ below => short
           /\ (~above /\ ~below) => invalid
           /\ ~(above /\ below)

\* C4 happens: a setup candle whose low touches the SMA was classified
C4_SetupTouchingSma ==
    /\ lastEval.branch = "setup"
    /\ lastEval.candle.low * SMA_PERIOD = lastEval.sma
    /\ lastEval.candle.high * SMA_PERIOD > lastEval.sma
    /\ lastEval.after.trade_completed

\* C5: every position's target is entry_price + reward_ratio * |entry_price
\* - stop_loss| when long and entry_price - reward_ratio * |entry_price -
\* stop_loss| when short, and an evaluation that enters a position leaves
\* the same target in the Position and in the StrategyState.
C5_TargetFromEntryAndStop ==
    /\ \A i \in 1..Len(positions) :
        LET p == positions[i]
            reward == RISK_REWARD_RATIO * Abs(p.entry_price - p.stop_loss)
        IN  p.target = IF p.direction = "long" THEN p.entry_price + reward
                       ELSE p.entry_price - reward
    /\ (lastEval.after.is_position_active /\ ~lastEval.before.is_position_active)
        => /\ positions # <<>>
           /\ positions[Len(positions)].symbol = lastEval.obj[1]
           /\ positions[Len(positions)].target = lastEval.after.target
           /\ positions[Len(positions)].entry_price = lastEval.after.entry_price
           /\ positions[Len(positions)].stop_loss = lastEval.after.stop_loss

\* C5 happens: an evaluation has just entered a short position
C5_ShortEntered ==
    /\ lastEval.after.is_position_active
    /\ ~lastEval.before.is_position_active
    /\ positions # <<>>
    /\ positions[Len(positions)].direction = "short"
    /\ positions[Len(positions)].target < positions[Len(positions)].entry_price

\* C6: validate_order_risk rejects every order whose quantity * price is
\* greater than max_position_size, whatever the other checks would say.
C6_OversizedOrderRejected ==
    (/\ lastGate.code # "none"
     /\ lastGate.order.price.kind = "num"
     /\ lastGate.order.quantity * lastGate.order.price.v > MAX_POSITION_SIZE)
    => lastGate.code \notin {"none", "OK"}

\* C6 happens: quantity 2000 at 100.00 is rejected for its size while the
\* daily-loss, position-count, circuit and freeze checks would all pass
C6_OnlySizeFails ==
    /\ lastGate.order = [symbol |-> "RELIANCE", quantity |-> 2000,
                         price |-> Num(10000)]
    /\ lastGate.risk = NewRiskState
    /\ lastGate.ltp = LtpNested(10000)
    /\ lastGate.code = "POSITION_LIMIT"

\* the scenario of the specification, candle by candle
Scenario == <<AboveSma, WickThrough, AboveSma, AboveSma, BreakUp, DropLow>>

\* C7: with long bias and SMA 100.00, evaluating the candle open 102.00,
\* high 102.00, low 99.50, close 101.50 confirms the rejection: the candle
\* is stored as rejection_candle, skip_candles_remaining is SKIP_CANDLES
\* and trade_completed is still false.
C7_RejectionConfirmed ==
    (/\ lastEval.branch = "rejection"
     /\ lastEval.before.bias = "long"
     /\ lastEval.sma = 10000 * SMA_PERIOD
     /\ <<lastEval.candle.open, lastEval.candle.high,
          lastEval.candle.low, lastEval.candle.close>> = WickThrough)
    => /\ lastEval.after.rejection_candle = lastEval.candle
       /\ lastEval.after.skip_candles_remaining = SKIP_CANDLES
       /\ ~lastEval.after.trade_completed

\* C8: in the scenario, evaluated candle by candle within one start of the
\* symbol, once the candle whose high reaches 103.01 has been evaluated a
\* long position exists with entry 103.01, stop 99.49 and target 120.61.
C8_ScenarioEntry ==
    (/\ feed.script = Scenario
     /\ feed.pos = 5
     /\ feed.ticked
     /\ tasks = EmptyBag
     /\ gen["RELIANCE"] = 1
     /\ now <= setup_window_end)
    => \E i \in 1..Len(positions) :
        /\ positions[i].symbol = "RELIANCE"
        /\ positions[i].direction = "long"
        /\ positions[i].entry_price = 10301
        /\ positions[i].stop_loss = 9949
        /\ positions[i].target = 12061

\* C9: after an evaluation that monitored a symbol with a candle reaching
\* the stop of its ACTIVE position (low <= stop_loss when long, high >=
\* stop_loss when short), no position of the symbol is ACTIVE with that
\* stop reached, a position closed is closed at its stop price with
\* exit_reason STOP_LOSS, and the StrategyState has is_position_active
\* false and trade_completed true.
C9_StopLossCloses ==
    lastEval.monitored
    => \A i \in PositionsOf(lastEval.obj[1]) :
        /\ positions[i].status = "ACTIVE"
           => ~stop_loss_hit(positions[i], lastEval.candle)
        /\ (positions[i].status = "CLOSED"
            /\ stop_loss_hit(positions[i], lastEval.candle))
           => /\ positions[i].exit_price = Num(positions[i].stop_loss)
              /\ positions[i].exit_reason = "STOP_LOSS"
              /\ ~lastEval.after.is_position_active
              /\ lastEval.after.trade_completed

\* C10: once the force-exit time is reached, no position is ACTIVE.
C10_NoActiveAfterForceExit ==
    now >= FORCE_EXIT_TIME
    => \A i \in 1..Len(positions) : positions[i].status # "ACTIVE"

C12_PositionsCountBounded ==
    /\ 0 <= risk.positions_count
    /\ risk.positions_count <= max_positions

\* the number of times the Risk Gate authorized an order in an evaluation
Authorized(gates) == Cardinality({n \in 1..Len(gates) : gates[n] = "OK"})

\* C13: a step adds a Position to the ledger only if the Risk Gate
\* authorized the entry order in the same evaluation, and hands no more
\* orders to the brokerage than the Risk Gate authorized in it, whatever
\* dry_run is.
C13_RiskGateBeforeLedger ==
    [][/\ Len(positions') > Len(positions)
          => lastEval'.gates # <<>> /\ lastEval'.gates[1] = "OK"
       /\ orders' > orders
          => orders' - orders <= Authorized(lastEval'.gates)]_vars

\* the engine's loops have halted
Halted ==
    /\ ~session.is_running
    /\ ~session.is_monitoring
    /\ ~session.is_connected

\* C14: after stop_trading the engine eventually halts (is_running false,
\* ConnectionMonitor.is_monitoring false, WebSocket disconnected), and from
\* the call on no symbol evaluation is started and no connection made again.
C14_StopHalts ==
    /\ session.stopped ~> Halted
    /\ [][session.stopped /\ session'.stopped
          => /\ BagCardinality(tasks') <= BagCardinality(tasks)
             /\ session'.is_connected => session.is_connected]_vars

\* the positions of a symbol, in list order
LedgerOf(ps, s) == SelectSeq(ps, LAMBDA p : p.symbol = s)

\* the symbols whose processing raised in the latest round
Faulty(cycle) ==
    {cycle.log[n].symbol : n \in {m \in 1..Len(cycle.log) :
                                    cycle.log[m].outcome = "raised"}}

Stage(state) ==
    IF state.trade_completed THEN 6
    ELSE IF state.is_position_active THEN 5
    ELSE IF state.rejection_candle # NoCandle
    THEN (IF state.skip_candles_remaining = 0 THEN 4
          ELSE IF state.skip_candles_remaining = SKIP_CANDLES THEN 2
          ELSE 3)
    ELSE IF state.bias # "none" THEN 1
    ELSE 0

SetupDone(state) == state.bias # "none" \/ state.trade_completed

\* C17: a setup evaluation takes effect on the StrategyState of a symbol
\* only while the latest candle is stamped 09:57-10:05 and at most once:
\* after it the bias is never set or changed; and a symbol without bias
\* after the window gets no bias and no position.
C17_OneSetupInWindow ==
    [][\A s \in Symbols :
          (gen[s] > 0 /\ gen'[s] = gen[s])
          => LET a == st[Current(s)]
                 b == st'[Current(s)]
             IN  /\ (~SetupDone(a) /\ SetupDone(b))
                    => setup_window_start <= now /\ now <= setup_window_end
                 /\ SetupDone(a) => b.bias = a.bias
                 /\ (now > setup_window_end /\ a.bias = "none")
                    => /\ b.bias = "none"
                       /\ LedgerOf(positions', s) = LedgerOf(positions, s)]_vars

\* C18: an evaluation of _check_rejection records the candle as
\* rejection_candle and sets skip_candles_remaining to SKIP_CANDLES exactly
\* when, with long bias, low <= SMA <= min(open, close), max(open, close) >
\* SMA and the lower wick is at least MIN_WICK_PERCENT of the range, or,
\* with short bias, max(open, close) <= SMA <= high, min(open, close) < SMA
\* and the upper wick is at least MIN_WICK_PERCENT of the range; otherwise
\* it leaves both fields as they were.
C18_RejectionExactly ==
    lastEval.branch = "rejection"
    => LET c == lastEval.candle
           sma == lastEval.sma
           lo == Min(c.open, c.close) * SMA_PERIOD
           hi == Max(c.open, c.close) * SMA_PERIOD
           range == c.high - c.low
           long == /\ c.low * SMA_PERIOD <= sma /\ sma <= lo /\ hi > sma
                   /\ (Min(c.open, c.close) - c.low) * 100 >= MIN_WICK_PERCENT * range
           short == /\ hi <= sma /\ sma <= c.high * SMA_PERIOD /\ lo < sma
                    /\ (c.high - Max(c.open, c.close)) * 100 >= MIN_WICK_PERCENT * range
           meets == IF lastEval.before.bias = "long" THEN long ELSE short
       IN  IF meets
           THEN /\ lastEval.after.rejection_candle = c
                /\ lastEval.after.skip_candles_remaining = SKIP_CANDLES
           ELSE /\ lastEval.after.rejection_candle = NoCandle
                /\ lastEval.after.skip_candles_remaining
                   = lastEval.before.skip_candles_remaining

\* C18 happens: with short bias a candle whose upper wick is exactly 15 % of
\* its range and touches the SMA was recorded as the rejection candle
C18_EdgeWickRecorded ==
    /\ lastEval.branch = "rejection"
    /\ lastEval.before.bias = "short"
    /\ <<lastEval.candle.open, lastEval.candle.high,
         lastEval.candle.low, lastEval.candle.close>> = EdgeWickUp
    /\ lastEval.after.rejection_candle = lastEval.candle
    /\ lastEval.after.skip_candles_remaining = SKIP_CANDLES

\* C19: an evaluation made while the bias is set and no rejection is
\* confirmed, of a candle that crosses the SMA (low < SMA with long bias,
\* high > SMA with short bias) and is not recorded as the rejection candle,
\* sets trade_completed, whatever the candle's shape, high = low included.
C19_CrossingCompletes ==
    (/\ lastEval.branch = "rejection"
     /\ \/ /\ lastEval.before.bias = "long"
           /\ lastEval.candle.low * SMA_PERIOD < lastEval.sma
        \/ /\ lastEval.before.bias = "short"
           /\ lastEval.candle.high * SMA_PERIOD > lastEval.sma
     /\ lastEval.after.rejection_candle = NoCandle)
    => lastEval.after.trade_completed

\* C20: skip_candles_remaining decreases once per new candle: an evaluation
\* that decreases it has a latest candle other than that of the evaluation
\* before it, which confirmed the rejection or consumed a skipped candle.
C20_SkipPerCandle ==
    [][\A s \in Symbols :
          (/\ gen[s] > 0
           /\ gen'[s] = gen[s]
           /\ st'[Current(s)].skip_candles_remaining
                < st[Current(s)].skip_candles_remaining
           /\ lastEval.obj = Current(s)
           /\ lastEval.branch \in {"rejection", "skip"})
          => lastEval'.at # lastEval.at]_vars

\* C21: a step that enters a position for a symbol enters it at the
\* rejection candle's high plus ENTRY_OFFSET with the stop at its low minus
\* SL_OFFSET when the bias is long (low minus the offset and high plus the
\* offset when short), and the candle evaluated is later than the rejection
\* candle and reaches the entry price (high >= entry when long, low <=
\* entry when short).
C21_EntryFromLaterCandle ==
    [][\A s \in Symbols :
          (/\ gen[s] > 0
           /\ gen'[s] = gen[s]
           /\ Len(LedgerOf(positions', s)) > Len(LedgerOf(positions, s)))
          => LET rej == st[Current(s)].rejection_candle
                 p == positions'[Len(positions')]
                 c == lastEval'.candle
             IN  /\ p.symbol = s
                 /\ p.direction = st[Current(s)].bias
                 /\ c.timestamp > rej.timestamp
                 /\ IF p.direction = "long"
                    THEN /\ p.entry_price = rej.high + ENTRY_OFFSET
                         /\ p.stop_loss = rej.low - SL_OFFSET
                         /\ c.high >= p.entry_price
                    ELSE /\ p.entry_price = rej.low - ENTRY_OFFSET
                         /\ p.stop_loss = rej.high + SL_OFFSET
                         /\ c.low <= p.entry_price]_vars

\* C22: no position is entered after the entry cutoff: every step that
\* appends a position to the ledger is taken while the time of day is at
\* most ENTRY_CUTOFF.
C22_NoEntryAfterCutoff ==
    [][Len(positions') > Len(positions) => now <= ENTRY_CUTOFF]_vars

\* the position that an evaluation of symbol s monitors in this step: the
\* first ACTIVE one of the symbol, or the one the evaluation has just entered
MonitoredIdx(s) ==
    IF ActiveIdx(positions, s) # {} THEN MinOf(ActiveIdx(positions, s))
    ELSE Len(positions')

\* this step is the end of an evaluation of object o
Evaluated(o) ==
    /\ lastEval'.obj = o
    /\ \E k \in BagToSet(tasks) :
          k.pc = "fetching" /\ k.obj = o /\ CopiesIn(k, tasks') < CopiesIn(k, tasks)

\* C23: when the candle monitored touches both the stop-loss and the target
\* of the position (stop against the candle's low and target against its
\* high for a long position, the reverse for a short one), exactly one exit
\* is issued, with reason STOP_LOSS at the stop price, and no TARGET exit.
C23_StopBeforeTarget ==
    [][\A s \in Symbols :
          (/\ gen[s] > 0
           /\ Evaluated(Current(s))
           /\ lastEval'.monitored
           /\ ActiveIdx(positions, s) # {} \/ Len(positions') > Len(positions)
           /\ stop_loss_hit(positions'[MonitoredIdx(s)], lastEval'.candle)
           /\ target_hit(positions'[MonitoredIdx(s)], lastEval'.candle))
          => lastEval'.exits =
                <<[symbol |-> s, reason |-> "STOP_LOSS",
                   price |-> Num(positions'[MonitoredIdx(s)].stop_loss)]>>]_vars

\* a candle touching both levels of a long position was monitored and the
\* exit was issued
C23_BothTouched ==
    /\ lastEval.monitored
    /\ lastEval.exits # <<>>
    /\ \E i \in 1..Len(positions) :
          /\ positions[i].symbol = lastEval.obj[1]
          /\ positions[i].direction = "long"
          /\ lastEval.candle.low <= positions[i].stop_loss
          /\ lastEval.candle.high >= positions[i].target

\* C24: a position is never entered and exited in the same evaluation: the
\* step that appends a position issues no exit and leaves the new position
\* ACTIVE; its exit conditions are tested from the next candle on.
C24_NoExitOnEntryCandle ==
    [][Len(positions') > Len(positions)
        => /\ lastEval'.exits = <<>>
           /\ positions'[Len(positions')].status = "ACTIVE"]_vars

\* C25: validate_order_risk rejects every order whose value quantity * price
\* exceeds the available margin that a successful margin lookup returned.
C25_MarginRejects ==
    (/\ lastGate.order.symbol # ""
     /\ lastGate.order.price.kind = "num"
     /\ lastGate.margin.ok
     /\ lastGate.order.quantity * lastGate.order.price.v
            > lastGate.margin.live_balance)
    => lastGate.code # "OK"

\* C26: a live evaluation of the present StrategyState that finds the entry
\* triggered before the cutoff attempts the entry (the order goes to the
\* Risk Gate unless the market is closed), after earlier failures too; and
\* when the attempt fails, at the Risk Gate or at the brokerage, the
\* StrategyState, the position list and the Risk Gate counters are as before.
C26_FailedEntryLeavesState ==
    [][\A s \in Symbols : \A k \in BagToSet(tasks) :
          (/\ gen[s] > 0
           /\ k.obj = Current(s)
           /\ k.pc = "fetching"
           /\ k.current_time <= ENTRY_CUTOFF
           /\ CopiesIn(k, tasks') < CopiesIn(k, tasks)
           /\ lastEval'.obj = k.obj
           /\ lastEval'.branch = "entry"
           /\ entry_triggered(st[k.obj], lastEval'.candle)
           /\ ~dry_run)
          => /\ lastEval'.gates # <<>> \/ ~is_market_open(now)
             /\ Len(positions') = Len(positions)
                => /\ st'[k.obj] = st[k.obj]
                   /\ positions' = positions
                   /\ risk' = risk]_vars

\* an entry rejected by the Risk Gate after an entry refused by the
\* brokerage, for a StrategyState and a ledger that nothing has touched
C26_RetriedAfterFailure ==
    /\ lastEval.branch = "entry"
    /\ lastEval.obj = <<"RELIANCE", 1>>
    /\ lastEval.gates = <<"LTP_ERROR">>
    /\ lastEval.after = lastEval.before
    /\ orders = 1
    /\ positions = <<>>
    /\ ~dry_run

\* C27: a live evaluation that issues the exit of a position and does not
\* complete it (the StrategyState is not moved to trade_completed with
\* is_position_active false) leaves the position ACTIVE, the StrategyState
\* with is_position_active true and trade_completed false and the Risk Gate
\* counters as they were, so that the next monitoring cycle finds the
\* position again.
C27_FailedExitLeavesActive ==
    [][\A s \in Symbols :
          (/\ gen[s] > 0
           /\ Evaluated(Current(s))
           /\ ~dry_run
           /\ lastEval'.exits # <<>>
           /\ Len(positions') = Len(positions)
           /\ ~(/\ ~st'[Current(s)].is_position_active
                /\ st'[Current(s)].trade_completed))
          => /\ positions'[MonitoredIdx(s)].status = "ACTIVE"
             /\ st'[Current(s)].is_position_active
             /\ ~st'[Current(s)].trade_completed
             /\ risk' = risk]_vars

\* C28: with a brokerage that accepts orders the Risk Gate never blocks the
\* exit of an open position: every live evaluation that issues the exit of
\* a position whose stop-loss or target is touched leaves it CLOSED,
\* whatever positions_count and daily_pnl are.
C28_ExitNotBlocked ==
    [][\A s \in Symbols :
          (/\ gen[s] > 0
           /\ Evaluated(Current(s))
           /\ ~dry_run
           /\ lastEval'.exits # <<>>)
          => positions'[MonitoredIdx(s)].status = "CLOSED"]_vars

\* the number of evaluations of symbol s suspended at the candle fetch
InFlight(s) ==
    BagCardinality([k \in {j \in BagToSet(tasks) :
                              j.pc = "fetching" /\ j.obj[1] = s}
                        |-> CopiesIn(k, tasks)])

\* C29: at most one evaluation of a symbol is in flight at any time: no two
\* evaluations of the same symbol are suspended at the candle fetch together.
C29_OneEvaluationInFlight ==
    \A s \in Symbols : InFlight(s) <= 1

\* C30: every reconnect resubscribes exactly the instruments that were
\* requested by subscribe and not removed by unsubscribe since, whether they
\* were requested in one call or several, with the connection up or down.
C30_ReconnectResubscribesAsked ==
    [][(/\ ~session.is_connected
        /\ session'.is_connected
        /\ gen' = gen)
       => session'.resubscribed = session.asked]_vars

C32_ReconnectLimited ==
    session.reconnect_attempts <= 10

\* C33: handle_api_call invokes the wrapped function at most 3 times and,
\* when all have failed, ends with a TradingBotException; it returns on the
\* first successful invocation, with no invocation after it; and after an
\* invalid-input error it has invoked the function exactly once.
C33_BoundedRetries ==
    /\ api.calls <= 3
    /\ api.calls = Len(api.seen)
    /\ api.status = "running" => api.calls < 3
    /\ api.status \in {"idle", "running", "returned", "SESSION_EXPIRED",
                       "NETWORK_ERROR", "INVALID_INPUT", "API_ERROR",
                       "UNKNOWN_ERROR", "MAX_RETRIES_EXCEEDED"}
    /\ \A n \in 1..Len(api.seen) :
          /\ api.seen[n] = "ok" => n = Len(api.seen) /\ api.status = "returned"
          /\ api.seen[n] = "input"
                => n = Len(api.seen) /\ api.status = "INVALID_INPUT"
    /\ api.status = "returned" => api.seen[Len(api.seen)] = "ok"
    /\ api.calls > 0 /\ api.seen[1] = "input" => api.calls = 1

\* three invocations have failed and the call has ended with an error
C33_ThreeFailures ==
    /\ api.calls = 3
    /\ api.status \notin {"idle", "running", "returned"}
    /\ \A n \in 1..3 : api.seen[n] \in {"network", "rate", "other"}

\* C34: every expired-auth failure triggers a session refresh, and the call
\* is retried once: a second expired-auth failure, or a refresh that fails,
\* ends the call with SESSION_EXPIRED and no further invocation.
C34_OneRetryAfterRefresh ==
    LET TokenFailures == {n \in 1..Len(api.seen) : api.seen[n] = "token"}
    IN
    /\ api.refreshes = Cardinality(TokenFailures)
    /\ Cardinality(TokenFailures) >= 2 => api.status = "SESSION_EXPIRED"
    /\ api.refresh_failed
          => /\ api.status = "SESSION_EXPIRED"
             /\ api.seen[Len(api.seen)] = "token"

\* C35: an evaluation that gets no candle data, or fewer candles than the
\* SMA needs, still monitors the ACTIVE position of its symbol against the
\* last known price: when that price is at or beyond the stop-loss or the
\* target, the exit is issued in that evaluation.
C35_MonitoredWithoutCandles ==
    [][\A s \in Symbols :
          (/\ gen[s] > 0
           /\ Evaluated(Current(s))
           /\ lastEval'.branch = "insufficient"
           /\ st[Current(s)].is_position_active
           /\ ActiveIdx(positions, s) # {}
           /\ LET p == positions[MinOf(ActiveIdx(positions, s))]
                  last == [NoCandle EXCEPT !.high = p.current_price,
                                           !.low = p.current_price]
              IN  stop_loss_hit(p, last) \/ target_hit(p, last))
          => lastEval'.exits # <<>>]_vars

C37_ActiveFlagMatchesLedger ==
    \A s \in Symbols :
        gen[s] > 0
        => (st[Current(s)].is_position_active <=> ActiveIdx(positions, s) # {})

\* C38: positions_count equals the number of ACTIVE Positions in the
\* position list.
C38_CountMatchesLedger ==
    risk.positions_count
        = Cardinality({i \in 1..Len(positions) : positions[i].status = "ACTIVE"})

\* C39: a symbol whose StrategyState has trade_completed true has no ACTIVE
\* Position.
C39_CompletedHasNoActive ==
    \A s \in Symbols :
        (gen[s] > 0 /\ st[Current(s)].trade_completed)
        => ActiveIdx(positions, s) = {}

====
